---- MODULE Spec2Model ----
(***************************************************************************)
(* Model of mongo_connector.dest_mapping.DestMapping: the namespace        *)
(* mapper with plain and wildcard mappings, the reverse index, the         *)
(* per-database fan-out index and the learning cache guarded by a lock.    *)
(*                                                                         *)
(* Strings are sequences of one-character strings, so that split, find,    *)
(* replace and the regular-expression match are computed character by      *)
(* character.  Python's None (for a string or a field list) is the empty   *)
(* sequence; both are falsy in the code.  Namespaces always contain a      *)
(* '.', and a pattern contains at most one '*'.                            *)
(***************************************************************************)
EXTENDS Naturals, Integers, Sequences, FiniteSets, TLC

\* ---------------------------------------------------------------- bounds
\* Largest number of entries of user_mapping (after the namespace_set merge).
MaxMappings == 2

\* ---------------------------------------------------------------- strings
None == <<>>

a_x == <<"a", ".", "x">>
a_y == <<"a", ".", "y">>
b_x == <<"b", ".", "x">>
b_y == <<"b", ".", "y">>
ab_x == <<"a", "b", ".", "x">>
c_x == <<"c", ".", "x">>
c_y == <<"c", ".", "y">>
d_y == <<"d", ".", "y">>
c_za == <<"c", ".", "z", "a">>
c__x == <<"c", ".", ".", "x">>
a_star == <<"a", ".", "*">>
b_star == <<"b", ".", "*">>
c_star == <<"c", ".", "*">>
star_x == <<"*", ".", "x">>
star_y == <<"*", ".", "y">>
c_zstar == <<"c", ".", "z", "*">>
DotCmd == <<".", "$", "c", "m", "d">>
Cmd == <<"$", "c", "m", "d">>
f_list == <<"f">>
g_list == <<"g">>

\* str.find(ch): 0-based index of the first occurrence, -1 when there is none.
Find(s, ch) ==
    IF \E i \in 1..Len(s) : s[i] = ch
    THEN (CHOOSE i \in 1..Len(s) : s[i] = ch /\ \A j \in 1..(i - 1) : s[j] # ch) - 1
    ELSE -1

\* ch in s
Contains(s, ch) == \E i \in 1..Len(s) : s[i] = ch

\* s.split('.', 1)[0]
SplitHead(s) == IF Find(s, ".") = -1 THEN s ELSE SubSeq(s, 1, Find(s, "."))

\* s.split('.', 1)[1]
SplitTail(s) == SubSeq(s, Find(s, ".") + 2, Len(s))

\* pattern.replace("*", g): every '*' is replaced.
RECURSIVE StrReplaceStar(_, _)
StrReplaceStar(pattern, g) ==
    IF pattern = <<>> THEN <<>>
    ELSE (IF Head(pattern) = "*" THEN g ELSE <<Head(pattern)>>)
         \o StrReplaceStar(Tail(pattern), g)

\* ---------------------------------------------------------------- regex
\* Number of characters of a star-free regex piece that consume input:
\* every character but the end anchor '$'.
NCons(q) == Cardinality({k \in 1..Len(q) : q[k] # "$"})

ConsBefore(q, k) == Cardinality({m \in 1..(k - 1) : q[m] # "$"})

\* The star-free piece q of a regular expression matches s from position i:
\* '.' matches any character, '$' only the end of s, any other character
\* itself (the namespace is not escaped when the pattern is built).
PieceMatches(q, s, i) ==
    /\ i + NCons(q) - 1 <= Len(s)
    /\ \A k \in 1..Len(q) :
          LET pos == i + ConsBefore(q, k)
          IN IF q[k] = "$" THEN pos = Len(s) + 1
             ELSE (q[k] = "." \/ q[k] = s[pos])

NoMatch == [ok |-> FALSE, has_group |-> FALSE, group |-> <<>>]

\* DestMapping.match: re.match(r'\A' + wildcard_ns.replace('*', group) + r'\Z', src)
match(src, wildcard_ns) ==
    LET star == Find(wildcard_ns, "*")
        dot == Find(wildcard_ns, ".")
        dbgroup == star < dot
    IN IF star = -1
       THEN IF PieceMatches(wildcard_ns, src, 1) /\ NCons(wildcard_ns) = Len(src)
            THEN [ok |-> TRUE, has_group |-> FALSE, group |-> <<>>]
            ELSE NoMatch
       ELSE LET pre == SubSeq(wildcard_ns, 1, star)
                post == SubSeq(wildcard_ns, star + 2, Len(wildcard_ns))
                grp == SubSeq(src, NCons(pre) + 1, Len(src) - NCons(post))
            IN IF /\ Len(src) >= NCons(pre) + NCons(post)
                  /\ PieceMatches(pre, src, 1)
                  /\ PieceMatches(post, src, Len(src) - NCons(post) + 1)
                  /\ (dbgroup => ~Contains(grp, "."))
               THEN [ok |-> TRUE, has_group |-> TRUE, group |-> grp]
               ELSE NoMatch

\* DestMapping.replace: map_pattern.replace("*", src_match.group(1))
replace(src_match, map_pattern) == StrReplaceStar(map_pattern, src_match.group)

\* match_set that compares literally only
match_set_literal(plain_src, dst_arr) == plain_src \in dst_arr

\* DestMapping.match_set
match_set(plain_src, dst_arr) ==
    \E x \in dst_arr :
        \/ plain_src = x
        \/ (Contains(x, "*") /\ match(plain_src, x).ok)

\* ---------------------------------------------------------------- values
MappedNamespace(name, inc, exc) ==
    [name |-> name, include_fields |-> inc, exclude_fields |-> exc]

NoNamespace == MappedNamespace(None, None, None)

\* dict.get(key) with default None, for a dict whose values are strings
DictGet(d, key) == IF key \in DOMAIN d THEN d[key] ELSE None

DictSet(d, key, val) ==
    [k \in (DOMAIN d) \cup {key} |-> IF k = key THEN val ELSE d[k]]

EmptyDict == [k \in {} |-> None]

\* ---------------------------------------------------------------- inputs
Entry(src, rename, inc, exc) ==
    [src |-> src, rename |-> rename, fields |-> inc, excludeFields |-> exc]

\* The items user_mapping can hold (namespace_set members are items that
\* map a namespace to itself).
MappingPool ==
    { Entry(a_x, c_x, None, None),
      Entry(b_x, c_x, None, None),
      Entry(a_y, d_y, None, None),
      Entry(b_y, c_y, None, None),
      Entry(a_star, c_star, f_list, None),
      Entry(star_x, c_zstar, None, None),
      Entry(star_y, c_zstar, None, None),
      Entry(b_star, None, None, g_list) }

RECURSIVE SeqsUpTo(_, _)
SeqsUpTo(S, n) ==
    IF n = 0 THEN {<<>>}
    ELSE LET shorter == SeqsUpTo(S, n - 1)
         IN shorter \cup {Append(s, e) : s \in shorter, e \in S}

\* user_mapping.items(): the items in the dict's order, with distinct keys.
UserMappings ==
    { s \in SeqsUpTo(MappingPool, MaxMappings) :
        \A i, j \in 1..Len(s) : i # j => s[i].src # s[j].src }

\* (include_fields, exclude_fields) given to the constructor
GlobalFields == { <<None, None>>, <<f_list, None>>, <<None, g_list>> }

ExclusionSets == { {}, {a_x}, {b_star} }

\* (ex_namespace_set, (include_fields, exclude_fields)) of one constructor
\* call: an exclusion set or default field lists, or neither.
ConstructorOptions ==
    { o \in ExclusionSets \X GlobalFields : o[1] = {} \/ o[2] = <<None, None>> }

\* The source namespaces, databases and target namespaces callers ask about.
SourceNamespaces == {a_x, a_y, b_x, b_y, ab_x}
SourceDatabases == {<<"a">>, <<"b">>, <<"a", "b">>}
TargetNamespaces == {c_x, c_y, c_za, c__x, a_x, b_x}

T1 == "t1"
T2 == "t2"
NoThread == "none"

VARIABLES
    user_mapping,       \* user_mapping.items() after the namespace_set merge
    added,              \* number of items the constructor's loop has handled
    raised,             \* the constructor raised InvalidConfiguration
    plain,              \* self.plain
    wildcard,           \* self.wildcard
    wildcard_keys,      \* iteration order of self.wildcard
    reverse_plain,      \* self.reverse_plain
    plain_db,           \* self.plain_db
    namespace_set,      \* self.namespace_set
    ex_namespace_set,   \* self.ex_namespace_set
    include_fields,     \* self.include_fields
    exclude_fields,     \* self.exclude_fields
    lock,               \* self.lock: the thread holding it, or NoThread
    threads,            \* the worker threads sharing the mapper
    asked,              \* the namespaces and databases the workers ask about
    pc,                 \* position of each thread in the method it runs
    call,               \* the method each thread called last, and its argument
    new_mapped,         \* the local new_mapped of a thread inside get
    ret                 \* what the last call of each thread returned

\* The checkpoint store of mongo_connector.oplog_progress and the two files
\* it works on: the progress file and its backup.
VARIABLES
    oplog_progress_file, \* self.oplog_progress_file: None or the path
    dict,                \* self.dict in insertion order: entries [name, ts]
    store_lock,          \* self.lock of the store: the thread holding it, or NoThread
    fresh,               \* no method of the store has been called yet
    files,               \* the content of every file on disk, by file identity
    primary,             \* the file the path oplog_progress_file names, 0 if none
    backup,              \* the file oplog_progress_file + '.backup' names, 0 if none
    store_asked,         \* the names and checkpoints the workers pass
    op_pc,               \* position of each thread in the store method it runs
    op_call,             \* the store method each thread called last, with arguments
    op_ret,              \* what the last store call of each thread returned
    items,               \* the local items of a thread inside save
    dest,                \* the file a thread inside save has open for writing, 0 if none
    snapshot,            \* history: self.dict as it was when items was computed
    saved,               \* history: the table whose save is the last thing that
                         \* happened to the progress file, NotSaved otherwise
    before               \* history: what the progress file held when the save
                         \* of a thread renamed it, until that save has succeeded

store_vars == << oplog_progress_file, dict, store_lock, fresh, files, primary, backup,
                 store_asked, op_pc, op_call, op_ret, items, dest, snapshot, saved,
                 before >>

vars == << user_mapping, added, raised, plain, wildcard, wildcard_keys, reverse_plain,
           plain_db, namespace_set, ex_namespace_set, include_fields,
           exclude_fields, lock, threads, asked, pc, call, new_mapped, ret,
           oplog_progress_file, dict, store_lock, fresh, files, primary, backup,
           store_asked, op_pc, op_call, op_ret, items, dest, snapshot, saved, before >>

\* What no method of the mapper touches: the constructor's arguments, the
\* threads and their arguments, and the checkpoint store.
config == << user_mapping, ex_namespace_set, include_fields, exclude_fields, threads, asked,
             store_vars >>
dicts == << plain, wildcard, wildcard_keys, reverse_plain, plain_db, namespace_set >>

\* ---------------------------------------------------------------- OplogProgress
\* bson Timestamp(time, inc); None where a checkpoint is expected
Timestamp(time, inc) == [time |-> time, inc |-> inc]
NoCheckpoint == Timestamp(-1, -1)

\* The two halves of the integer a timestamp is saved as: seconds in the
\* high bits, the counter in the low bits.  The halves are 16 bits wide
\* here, so that the integers of the model hold the result.
TsShift == 2^16

\* util.bson_ts_to_long
bson_ts_to_long(ts) == ts.time * TsShift + ts.inc

\* util.long_to_bson_ts
long_to_bson_ts(val) == Timestamp(val \div TsShift, val % TsShift)

\* self.dict, a dict in insertion order
DictEntry(name, ts) == [name |-> name, ts |-> ts]
Keys(d) == {d[i].name : i \in 1..Len(d)}
Lookup(d, name) == d[CHOOSE i \in 1..Len(d) : d[i].name = name].ts
Pop(d, name) == SelectSeq(d, LAMBDA e : e.name # name)
SetItem(d, name, ts) ==
    IF name \in Keys(d)
    THEN [i \in 1..Len(d) |-> IF d[i].name = name THEN DictEntry(name, ts) ELSE d[i]]
    ELSE Append(d, DictEntry(name, ts))

\* What a file holds, as far as init tells contents apart: nothing, text
\* json.load rejects, or a JSON document: one [name, timestamp] pair, a
\* list of such pairs, or a number.
Content(kind, shape, pairs) == [kind |-> kind, shape |-> shape, pairs |-> pairs]
EmptyFile == Content("empty", "none", <<>>)
InvalidJson == Content("invalid", "none", <<>>)
JsonPair(pair) == Content("json", "pair", <<pair>>)
JsonList(pairs) == Content("json", "list", pairs)
JsonNumber == Content("json", "number", <<>>)

\* json.dumps of save: the only pair by itself, or the list of pairs
Dumps(its) == IF Len(its) = 1 THEN JsonPair(its[1]) ELSE JsonList(its)

\* `[[name, util.bson_ts_to_long(self.dict[name])] for name in self.dict]`
RECURSIVE ItemsOf(_)
ItemsOf(d) ==
    IF d = <<>> THEN <<>>
    ELSE << DictEntry(Head(d).name, bson_ts_to_long(Head(d).ts)) >> \o ItemsOf(Tail(d))

\* `for name, timestamp in data: self.dict[name] = util.long_to_bson_ts(timestamp)`
RECURSIVE LoadPairs(_, _)
LoadPairs(d, pairs) ==
    IF pairs = <<>> THEN d
    ELSE LoadPairs(SetItem(d, Head(pairs).name, long_to_bson_ts(Head(pairs).ts)),
                   Tail(pairs))

\* init that takes a lone pair for a file it cannot read
init_no_wrap(path, fs_primary, fs_files, d) ==
    IF path = None \/ fs_primary = 0 THEN [raised |-> FALSE, error |-> "none", dict |-> d]
    ELSE LET c == fs_files[fs_primary]
         IN IF c.kind \in {"empty", "invalid"}
            THEN [raised |-> FALSE, error |-> "none", dict |-> d]
            ELSE IF c.shape # "list" \/ c.pairs = <<>>
            THEN [raised |-> TRUE, error |-> "TypeError", dict |-> d]
            ELSE [raised |-> FALSE, error |-> "none", dict |-> LoadPairs(d, c.pairs)]

\* OplogProgress.init: nothing to do without a path, for a missing file
\* (OSError of os.stat), an empty file and text json.load rejects
\* (ValueError); data[0] raises for a number (TypeError) and for an empty
\* list (IndexError); a pair is wrapped into a list, and the pairs loaded.
init(path, fs_primary, fs_files, d) ==
    IF path = None \/ fs_primary = 0 THEN [raised |-> FALSE, error |-> "none", dict |-> d]
    ELSE LET c == fs_files[fs_primary]
         IN IF c.kind \in {"empty", "invalid"}
            THEN [raised |-> FALSE, error |-> "none", dict |-> d]
            ELSE IF c.shape = "number"
            THEN [raised |-> TRUE, error |-> "TypeError", dict |-> d]
            ELSE IF c.shape = "list" /\ c.pairs = <<>>
            THEN [raised |-> TRUE, error |-> "IndexError", dict |-> d]
            ELSE [raised |-> FALSE, error |-> "none", dict |-> LoadPairs(d, c.pairs)]

\* update_checkpoint that leaves the entry of the old format in place
update_checkpoint_no_pop(d, oplog_col, replset_name, checkpoint) ==
    IF checkpoint = NoCheckpoint THEN d
    ELSE SetItem(d, replset_name, checkpoint)

\* OplogProgress.update_checkpoint; str(oplog_col) of a name is the name.
update_checkpoint(d, oplog_col, replset_name, checkpoint) ==
    IF checkpoint = NoCheckpoint THEN d
    ELSE SetItem(Pop(d, oplog_col), replset_name, checkpoint)

\* read_checkpoint that knows the new format only
read_checkpoint_new_only(d, oplog_col, replset_name) ==
    IF replset_name \in Keys(d) THEN Lookup(d, replset_name)
    ELSE NoCheckpoint

\* OplogProgress.read_checkpoint: the entry of the new format, else the
\* entry of the old format, else None.
read_checkpoint(d, oplog_col, replset_name) ==
    IF replset_name \in Keys(d) THEN Lookup(d, replset_name)
    ELSE IF oplog_col \in Keys(d) THEN Lookup(d, oplog_col)
    ELSE NoCheckpoint

\* The files a path or an open file object still refers to
Referenced(pr, bk, dst) == ({pr, bk} \cup {dst[t] : t \in DOMAIN dst}) \ {0}

\* The disk keeps a file as long as something refers to it.
Collect(fs, pr, bk, dst) == [i \in (DOMAIN fs) \cap Referenced(pr, bk, dst) |-> fs[i]]

\* At most this many files exist at once: the progress file, the backup,
\* and one file each thread has open after another thread renamed it.
MaxFiles == 4

\* The identity of a file open(path, 'w') creates
NewFile(pr, bk, dst) ==
    CHOOSE i \in 1..MaxFiles :
        /\ i \notin Referenced(pr, bk, dst)
        /\ \A j \in 1..(i - 1) : j \in Referenced(pr, bk, dst)

\* The path of the progress file
ProgressPath == << "oplog.timestamp" >>

\* Checkpoints and names of the tests, and the integers saved for them
Ts_12_34 == Timestamp(12, 34)
Ts_55_11 == Timestamp(55, 11)
Op1Pair == DictEntry("oplog1", bson_ts_to_long(Ts_12_34))
Rs2Pair == DictEntry("rs2", bson_ts_to_long(Ts_55_11))

\* What the progress file holds when the store is constructed: no file,
\* or a file with one of these contents
InitialFiles ==
    { <<>>, << EmptyFile >>, << InvalidJson >>, << JsonNumber >>, << JsonList(<<>>) >>,
      << JsonPair(Op1Pair) >>, << JsonList(<< Op1Pair, Rs2Pair >>) >> }

StoreCall(op, oplog_col, replset_name, checkpoint) ==
    [op |-> op, oplog_col |-> oplog_col, replset_name |-> replset_name,
     checkpoint |-> checkpoint]
StoreIdle == StoreCall("none", "", "", NoCheckpoint)
StoreReturn(kind, error, value) == [kind |-> kind, error |-> error, value |-> value]
StoreNoReturn == StoreReturn("pending", "none", NoCheckpoint)
NotSaved == <<>>
NoContent == Content("none", "none", <<>>)

\* OplogProgress.__init__, and the state of the disk at that time
InitStore(paths, contents, thrs, asks) ==
    /\ oplog_progress_file \in paths
    /\ dict = <<>>
    /\ store_lock = NoThread
    /\ fresh = TRUE
    /\ \E c \in contents : files = c /\ primary = Len(c)
    /\ backup = 0
    /\ store_asked = asks
    /\ op_pc = [t \in thrs |-> "idle"]
    /\ op_call = [t \in thrs |-> StoreIdle]
    /\ op_ret = [t \in thrs |-> StoreNoReturn]
    /\ items = [t \in thrs |-> <<>>]
    /\ dest = [t \in thrs |-> 0]
    /\ snapshot = [t \in thrs |-> <<>>]
    /\ saved = NotSaved
    /\ before = [t \in thrs |-> NoContent]

\* No checkpoint store is in use.
StoreAskedNothing == [cols |-> {}, names |-> {}, checkpoints |-> {}]
NoStore(thrs) == InitStore({None}, {<<>>}, thrs, StoreAskedNothing)

\* ---------------------------------------------------------------- set_plain
\* set_plain without its check of reverse_plain
TargetNeverTaken(rp, src_name, target_name) == FALSE

\* set_plain, the check: the target already belongs to another source.
TargetTaken(rp, src_name, target_name) ==
    LET existing_src == DictGet(rp, target_name)
    IN existing_src # None /\ existing_src # src_name

\* The fan-out update recording the source database as the target
PlainDbAddSource(pdb, src_name, target_name) ==
    LET src_db == SplitHead(src_name)
        src_col == SplitTail(src_name)
    IN IF src_col # Cmd
       THEN DictSet(pdb, src_db, (IF src_db \in DOMAIN pdb THEN pdb[src_db] ELSE {})
                                 \cup {src_db})
       ELSE pdb

\* set_plain, the fan-out update: command namespaces are left out.
PlainDbAdd(pdb, src_name, target_name) ==
    LET src_db == SplitHead(src_name)
        src_col == SplitTail(src_name)
        target_db == SplitHead(target_name)
    IN IF src_col # Cmd
       THEN DictSet(pdb, src_db, (IF src_db \in DOMAIN pdb THEN pdb[src_db] ELSE {})
                                 \cup {target_db})
       ELSE pdb

\* set_plain that forgets to write reverse_plain
set_plain_no_reverse(d, src_name, mapped_namespace) ==
    LET target_name == mapped_namespace.name
    IN IF TargetTaken(d.reverse_plain, src_name, target_name)
       THEN [d EXCEPT !.raised = TRUE]
       ELSE [d EXCEPT !.plain = DictSet(d.plain, src_name, mapped_namespace),
                      !.plain_db = PlainDbAdd(d.plain_db, src_name, target_name)]

\* set_plain that caches the target name without the field lists
set_plain_no_fields(d, src_name, mapped_namespace) ==
    LET target_name == mapped_namespace.name
    IN IF TargetTaken(d.reverse_plain, src_name, target_name)
       THEN [d EXCEPT !.raised = TRUE]
       ELSE [d EXCEPT !.plain = DictSet(d.plain, src_name,
                                        MappedNamespace(target_name, None, None)),
                      !.reverse_plain = DictSet(d.reverse_plain, target_name, src_name),
                      !.plain_db = PlainDbAdd(d.plain_db, src_name, target_name)]

\* set_plain that writes its entries before it checks reverse_plain
set_plain_write_first(d, src_name, mapped_namespace) ==
    LET target_name == mapped_namespace.name
        written == [d EXCEPT !.plain = DictSet(d.plain, src_name, mapped_namespace),
                             !.reverse_plain = DictSet(d.reverse_plain, target_name, src_name),
                             !.plain_db = PlainDbAdd(d.plain_db, src_name, target_name)]
    IN IF TargetTaken(d.reverse_plain, src_name, target_name)
       THEN [written EXCEPT !.raised = TRUE]
       ELSE written

\* DestMapping.set_plain on the dictionaries d; raised when it raises
\* InvalidConfiguration, which happens before anything is written.
set_plain(d, src_name, mapped_namespace) ==
    LET target_name == mapped_namespace.name
    IN IF TargetTaken(d.reverse_plain, src_name, target_name)
       THEN [d EXCEPT !.raised = TRUE]
       ELSE [d EXCEPT !.plain = DictSet(d.plain, src_name, mapped_namespace),
                      !.reverse_plain = DictSet(d.reverse_plain, target_name, src_name),
                      !.plain_db = PlainDbAdd(d.plain_db, src_name, target_name)]

\* DestMapping.set
set(d, src_name, mapped_namespace) ==
    IF Contains(src_name, "*")
    THEN [d EXCEPT !.wildcard = DictSet(d.wildcard, src_name, mapped_namespace),
                   !.wildcard_keys = IF src_name \in DOMAIN d.wildcard
                                     THEN d.wildcard_keys
                                     ELSE Append(d.wildcard_keys, src_name),
                   !.namespace_set = d.namespace_set \cup {src_name}]
    ELSE LET after == set_plain(d, src_name, mapped_namespace)
         IN IF after.raised THEN after
            ELSE [after EXCEPT !.namespace_set = after.namespace_set \cup {src_name}]

\* _add_mapping, the check of the field lists
MixedFields(inc_default, exc_default, inc, exc) ==
    \/ (inc_default # None /\ exc # None)
    \/ (exc_default # None /\ inc # None)
    \/ (inc # None /\ exc # None)

\* DestMapping._add_mapping
add_mapping(d, inc_default, exc_default, src_name, rename, inc, exc) ==
    IF MixedFields(inc_default, exc_default, inc, exc)
    THEN [d EXCEPT !.raised = TRUE]
    ELSE LET dest_name == IF rename = None THEN src_name ELSE rename
             first == set(d, src_name, MappedNamespace(dest_name, inc, exc))
             cmd_name == SplitHead(src_name) \o DotCmd
             dest_cmd_name == SplitHead(dest_name) \o DotCmd
         IN IF first.raised THEN first
            ELSE set(first, cmd_name, MappedNamespace(dest_cmd_name, None, None))

\* The dictionaries of the mapper as one record
Dicts ==
    [raised |-> raised, plain |-> plain, wildcard |-> wildcard,
     wildcard_keys |-> wildcard_keys, reverse_plain |-> reverse_plain,
     plain_db |-> plain_db, namespace_set |-> namespace_set]

SetDicts(d) ==
    /\ raised' = d.raised
    /\ plain' = d.plain
    /\ wildcard' = d.wildcard
    /\ wildcard_keys' = d.wildcard_keys
    /\ reverse_plain' = d.reverse_plain
    /\ plain_db' = d.plain_db
    /\ namespace_set' = d.namespace_set

\* ---------------------------------------------------------------- threads
Call(op, arg, projection) == [op |-> op, arg |-> arg, projection |-> projection]
Idle == Call("none", None, None)
NoReturn ==
    [kind |-> "pending", via |-> "none", ns |-> NoNamespace, dbs |-> {},
     projection |-> EmptyDict]
Return(kind, via, ns, dbs) ==
    [kind |-> kind, via |-> via, ns |-> ns, dbs |-> dbs, projection |-> EmptyDict]

\* DestMapping.__init__ up to the loop over user_mapping.items()
InitMapper(mappings, options, thrs, asks) ==
    /\ user_mapping \in mappings
    /\ added = 0
    /\ raised = FALSE
    /\ plain = EmptyDict
    /\ wildcard = EmptyDict
    /\ wildcard_keys = <<>>
    /\ reverse_plain = EmptyDict
    /\ plain_db = EmptyDict
    /\ namespace_set = {}
    /\ \E o \in options :
          /\ ex_namespace_set = o[1]
          /\ include_fields = o[2][1]
          /\ exclude_fields = o[2][2]
    /\ lock = NoThread
    /\ threads = thrs
    /\ asked = asks
    /\ pc = [t \in thrs |-> "idle"]
    /\ call = [t \in thrs |-> Idle]
    /\ new_mapped = [t \in thrs |-> NoNamespace]
    /\ ret = [t \in thrs |-> NoReturn]

\* A mapper under construction, without a checkpoint store
InitWith(mappings, options, thrs, asks) ==
    InitMapper(mappings, options, thrs, asks) /\ NoStore(thrs)

AskedAll ==
    [src |-> SourceNamespaces, dbs |-> SourceDatabases, targets |-> TargetNamespaces,
     projected |-> {a_x}]

Init == InitWith(UserMappings, ConstructorOptions, {T1}, AskedAll)

\* The constructor has returned a mapper.
Constructed == added = Len(user_mapping) /\ ~raised

\* One round of the constructor's loop: _add_mapping for the next item.
AddMapping ==
    /\ added < Len(user_mapping)
    /\ ~raised
    /\ LET e == user_mapping[added + 1]
       IN SetDicts(add_mapping(Dicts, include_fields, exclude_fields,
                               e.src, e.rename, e.fields, e.excludeFields))
    /\ added' = added + 1
    /\ UNCHANGED << config, lock, pc, call, new_mapped, ret >>

\* ---------------------------------------------------------------- get
\* The test of the default with its negations lost
SomeMappings(pl, wc) == DOMAIN wc # {} \/ DOMAIN pl # {}

\* `not self.wildcard and not self.plain`
NoMappings(pl, wc) == DOMAIN wc = {} /\ DOMAIN pl = {}

\* The namespace the running get was called with: map_db looks up the
\* command namespace of its database.
GetArg(t) == IF call[t].op = "map_db" THEN call[t].arg \o DotCmd ELSE call[t].arg

\* What the caller of get does with the value get returned (or raised):
\* get itself, map_namespace and fields return at once, map_db goes on to
\* read plain_db, projection goes on with the pair fields returned.
FinishGet(t, op, kind, via, ns) ==
    CASE op = "get" ->
           /\ ret' = [ret EXCEPT ![t] = Return(kind, via, ns, {})]
           /\ pc' = [pc EXCEPT ![t] = "idle"]
      [] op = "map_namespace" ->
           /\ ret' = [ret EXCEPT ![t] =
                        Return(kind, via, MappedNamespace(ns.name, None, None), {})]
           /\ pc' = [pc EXCEPT ![t] = "idle"]
      [] op = "fields" ->
           /\ ret' = [ret EXCEPT ![t] =
                        IF kind = "raise" THEN Return(kind, via, NoNamespace, {})
                        ELSE Return("value", via,
                                    MappedNamespace(None, ns.include_fields,
                                                    ns.exclude_fields), {})]
           /\ pc' = [pc EXCEPT ![t] = "idle"]
      [] op = "projection" ->
           IF kind = "raise"
           THEN /\ ret' = [ret EXCEPT ![t] = Return(kind, via, NoNamespace, {})]
                /\ pc' = [pc EXCEPT ![t] = "idle"]
           ELSE /\ ret' = [ret EXCEPT ![t] =
                             Return("pending", via,
                                    MappedNamespace(None, ns.include_fields,
                                                    ns.exclude_fields), {})]
                /\ pc' = [pc EXCEPT ![t] = "projection_fields"]
      [] op = "map_db" ->
           IF kind = "raise"
           THEN /\ ret' = [ret EXCEPT ![t] = Return(kind, via, NoNamespace, {})]
                /\ pc' = [pc EXCEPT ![t] = "idle"]
           ELSE /\ ret' = [ret EXCEPT ![t] = Return("pending", via, NoNamespace, {})]
                /\ pc' = [pc EXCEPT ![t] = "map_db_read"]

\* get before it takes the lock: the exclusion set, then the default.
GetUnlocked(t, op, plain_src_ns) ==
    IF match_set(plain_src_ns, ex_namespace_set)
    THEN FinishGet(t, op, "None", "excluded", NoNamespace)
    ELSE IF NoMappings(plain, wildcard)
    THEN FinishGet(t, op, "value", "default",
                   MappedNamespace(plain_src_ns, None, None))
    ELSE /\ pc' = [pc EXCEPT ![t] = "get_lock"]
         /\ ret' = [ret EXCEPT ![t] = NoReturn]

\* A thread calls get, map_namespace or fields.
GetCall(t, op, plain_src_ns) ==
    /\ Constructed
    /\ pc[t] = "idle"
    /\ call' = [call EXCEPT ![t] = Call(op, plain_src_ns, None)]
    /\ GetUnlocked(t, op, plain_src_ns)
    /\ UNCHANGED << added, config, dicts, raised, lock, new_mapped >>

\* A lock that never makes a thread wait
LockAlwaysFree(l) == TRUE

\* threading.Lock: it can be taken when no thread holds it.
LockFree(l) == l = NoThread

\* `with self.lock:` in get
GetAcquire(t) ==
    /\ pc[t] = "get_lock"
    /\ LockFree(lock)
    /\ lock' = t
    /\ pc' = [pc EXCEPT ![t] = "get_lookup"]
    /\ UNCHANGED << added, config, dicts, raised, call, new_mapped, ret >>

\* leaving the `with self.lock:` block
Release(t) == lock' = IF lock = t THEN NoThread ELSE lock

\* `return self.plain[plain_src_ns]`, or KeyError
GetLookup(t) ==
    /\ pc[t] = "get_lookup"
    /\ IF GetArg(t) \in DOMAIN plain
       THEN /\ FinishGet(t, call[t].op, "value", "hit", plain[GetArg(t)])
            /\ Release(t)
       ELSE /\ pc' = [pc EXCEPT ![t] = "get_scan"]
            /\ UNCHANGED << lock, ret >>
    /\ UNCHANGED << added, config, dicts, raised, call, new_mapped >>

\* The keys of self.wildcard that match, in the dict's order
RECURSIVE MatchingKeys(_, _)
MatchingKeys(keys, plain_src_ns) ==
    IF keys = <<>> THEN <<>>
    ELSE (IF match(plain_src_ns, Head(keys)).ok THEN <<Head(keys)>> ELSE <<>>)
         \o MatchingKeys(Tail(keys), plain_src_ns)

\* The MappedNamespace get builds from the wildcard entry that matched
Learned(plain_src_ns, wildcard_name, mapped) ==
    MappedNamespace(replace(match(plain_src_ns, wildcard_name), mapped.name),
                    mapped.include_fields, mapped.exclude_fields)

\* The loop over self.wildcard.items() up to the first match
GetScan(t) ==
    /\ pc[t] = "get_scan"
    /\ LET found == MatchingKeys(wildcard_keys, GetArg(t))
       IN IF found = <<>>
          THEN /\ FinishGet(t, call[t].op, "None", "nomatch", NoNamespace)
               /\ Release(t)
               /\ UNCHANGED new_mapped
          ELSE /\ new_mapped' = [new_mapped EXCEPT ![t] =
                                   Learned(GetArg(t), found[1], wildcard[found[1]])]
               /\ pc' = [pc EXCEPT ![t] = "get_set_plain"]
               /\ UNCHANGED << lock, ret >>
    /\ UNCHANGED << added, config, dicts, raised, call >>

\* `self.set_plain(plain_src_ns, new_mapped); return new_mapped`
GetSetPlain(t) ==
    /\ pc[t] = "get_set_plain"
    /\ LET after == set_plain([Dicts EXCEPT !.raised = FALSE], GetArg(t), new_mapped[t])
       IN /\ IF after.raised
             THEN FinishGet(t, call[t].op, "raise", "learned", NoNamespace)
             ELSE FinishGet(t, call[t].op, "value", "learned", new_mapped[t])
          /\ plain' = after.plain
          /\ reverse_plain' = after.reverse_plain
          /\ plain_db' = after.plain_db
          /\ UNCHANGED << wildcard, wildcard_keys, namespace_set >>
    /\ Release(t)
    /\ new_mapped' = [new_mapped EXCEPT ![t] = NoNamespace]
    /\ UNCHANGED << added, config, raised, call >>

\* ---------------------------------------------------------------- map_db
\* A thread calls map_db: the default, or the lookup of the command namespace.
MapDbCall(t, plain_src_db) ==
    /\ Constructed
    /\ pc[t] = "idle"
    /\ call' = [call EXCEPT ![t] = Call("map_db", plain_src_db, None)]
    /\ IF NoMappings(plain, wildcard)
       THEN /\ ret' = [ret EXCEPT ![t] =
                         Return("value", "default", NoNamespace, {plain_src_db})]
            /\ pc' = pc
       ELSE GetUnlocked(t, "map_db", plain_src_db \o DotCmd)
    /\ UNCHANGED << added, config, dicts, raised, lock, new_mapped >>

\* `return list(self.plain_db.get(plain_src_db, set()))`
MapDbRead(t) ==
    /\ pc[t] = "map_db_read"
    /\ ret' = [ret EXCEPT ![t] =
                 Return("value", ret[t].via, NoNamespace,
                        IF call[t].arg \in DOMAIN plain_db
                        THEN plain_db[call[t].arg] ELSE {})]
    /\ pc' = [pc EXCEPT ![t] = "idle"]
    /\ UNCHANGED << added, config, dicts, raised, lock, call, new_mapped >>

\* ---------------------------------------------------------------- projection
\* A projection document: the 0 or 1 of each field it names
FieldsDict(fields, include) ==
    [field \in {fields[i] : i \in 1..Len(fields)} |-> include]

\* dict.update: the entries of other replace and extend those of d
DictUpdate(d, other) ==
    [k \in (DOMAIN d) \cup (DOMAIN other) |-> IF k \in DOMAIN other THEN other[k] ELSE d[k]]

\* The projections a caller passes: none, or one naming the field h
h_projection == FieldsDict(<<"h">>, 1)
CallerProjections == {None, h_projection}

\* DestMapping.projection after its call of fields: the document of the
\* namespace's field list extended by the caller's projection, or the
\* caller's projection as it came when the namespace has no field list.
projection(inc, exc, caller) ==
    LET fields == IF inc # None THEN inc ELSE exc
        include == IF inc # None THEN 1 ELSE 0
    IN IF fields # None
       THEN [kind |-> "value",
             projection |-> IF caller # None
                            THEN DictUpdate(FieldsDict(fields, include), caller)
                            ELSE FieldsDict(fields, include)]
       ELSE [kind |-> IF caller = None THEN "None" ELSE "value", projection |-> caller]

\* A thread calls projection, which calls fields, which calls get.
ProjectionCall(t, plain_src_name, caller) ==
    /\ Constructed
    /\ pc[t] = "idle"
    /\ call' = [call EXCEPT ![t] = Call("projection", plain_src_name, caller)]
    /\ GetUnlocked(t, "projection", plain_src_name)
    /\ UNCHANGED << added, config, dicts, raised, lock, new_mapped >>

\* The rest of projection, once fields has returned
ProjectionBuild(t) ==
    /\ pc[t] = "projection_fields"
    /\ LET r == projection(ret[t].ns.include_fields, ret[t].ns.exclude_fields,
                           call[t].projection)
       IN ret' = [ret EXCEPT ![t] =
                    [Return(r.kind, ret[t].via, ret[t].ns, {})
                        EXCEPT !.projection = r.projection]]
    /\ pc' = [pc EXCEPT ![t] = "idle"]
    /\ UNCHANGED << added, config, dicts, raised, lock, call, new_mapped >>

\* ---------------------------------------------------------------- unmap
\* The wildcard entries whose target pattern matches, in the dict's order
RECURSIVE MatchingTargets(_, _, _)
MatchingTargets(keys, wc, plain_mapped_ns) ==
    IF keys = <<>> THEN <<>>
    ELSE (IF match(plain_mapped_ns, wc[Head(keys)].name).ok
          THEN <<Head(keys)>> ELSE <<>>)
         \o MatchingTargets(Tail(keys), wc, plain_mapped_ns)

\* unmap_namespace that skips the lookup in reverse_plain
unmap_namespace_scan_only(pl, wc, keys, rp, plain_mapped_ns) ==
    IF NoMappings(pl, wc) THEN [kind |-> "value", name |-> plain_mapped_ns]
    ELSE LET found == MatchingTargets(keys, wc, plain_mapped_ns)
         IN IF found = <<>> THEN [kind |-> "None", name |-> None]
            ELSE LET m == match(plain_mapped_ns, wc[found[1]].name)
                 IN IF m.has_group
                    THEN [kind |-> "value", name |-> replace(m, found[1])]
                    ELSE [kind |-> "raise", name |-> None]

\* DestMapping.unmap_namespace: the source namespace, None, or IndexError
\* when the target pattern that matched has no '*' and so no group 1.
unmap_namespace(pl, wc, keys, rp, plain_mapped_ns) ==
    IF NoMappings(pl, wc) THEN [kind |-> "value", name |-> plain_mapped_ns]
    ELSE IF DictGet(rp, plain_mapped_ns) # None
    THEN [kind |-> "value", name |-> DictGet(rp, plain_mapped_ns)]
    ELSE LET found == MatchingTargets(keys, wc, plain_mapped_ns)
         IN IF found = <<>> THEN [kind |-> "None", name |-> None]
            ELSE LET m == match(plain_mapped_ns, wc[found[1]].name)
                 IN IF m.has_group
                    THEN [kind |-> "value", name |-> replace(m, found[1])]
                    ELSE [kind |-> "raise", name |-> None]

\* A thread calls unmap_namespace; it takes no lock.
UnmapCall(t, plain_mapped_ns) ==
    /\ Constructed
    /\ pc[t] = "idle"
    /\ call' = [call EXCEPT ![t] = Call("unmap_namespace", plain_mapped_ns, None)]
    /\ LET r == unmap_namespace(plain, wildcard, wildcard_keys, reverse_plain,
                                plain_mapped_ns)
       IN ret' = [ret EXCEPT ![t] =
                    Return(r.kind, "unmap", MappedNamespace(r.name, None, None), {})]
    /\ UNCHANGED << added, config, dicts, raised, lock, pc, new_mapped >>

\* ---------------------------------------------------------------- next
Next ==
    \/ AddMapping
    \/ \E t \in threads : \E n \in asked.src :
          \E op \in {"get", "map_namespace", "fields"} : GetCall(t, op, n)
    \/ \E t \in threads : GetAcquire(t)
    \/ \E t \in threads : GetLookup(t)
    \/ \E t \in threads : GetScan(t)
    \/ \E t \in threads : GetSetPlain(t)
    \/ \E t \in threads : \E db \in asked.dbs : MapDbCall(t, db)
    \/ \E t \in threads : MapDbRead(t)
    \/ \E t \in threads : \E n \in asked.targets : UnmapCall(t, n)
    \/ \E t \in threads : \E n \in asked.projected :
          \E p \in CallerProjections : ProjectionCall(t, n, p)
    \/ \E t \in threads : ProjectionBuild(t)

Spec == Init /\ [][Next]_vars

\* Two worker threads share the mapper.
AskedConc ==
    [src |-> {a_x, a_y}, dbs |-> {<<"a">>, <<"b">>}, targets |-> {c_za}, projected |-> {a_x}]
InitConc == InitWith(UserMappings, {<<{}, <<None, None>> >>}, {T1, T2}, AskedConc)
SpecConc == InitConc /\ [][Next]_vars

\* ---------------------------------------------------------------- the store's methods
\* What no method of the store touches: the mapper and the threads
mapper_vars == << user_mapping, added, raised, dicts, ex_namespace_set, include_fields,
                  exclude_fields, lock, threads, asked, pc, call, new_mapped, ret >>
store_config == << oplog_progress_file, store_asked >>
disk == << files, primary, backup >>
save_locals == << items, dest, snapshot, before >>

\* A method of the store returns or raises: its locals are gone.
StoreFinish(t, kind, error, value) ==
    /\ op_ret' = [op_ret EXCEPT ![t] = StoreReturn(kind, error, value)]
    /\ op_pc' = [op_pc EXCEPT ![t] = "idle"]

\* A store is constructed anew on the same path, as after a restart.
NewStore ==
    /\ ~fresh
    /\ \A t \in threads : op_pc[t] = "idle"
    /\ dict' = <<>>
    /\ fresh' = TRUE
    /\ op_call' = [t \in threads |-> StoreIdle]
    /\ op_ret' = [t \in threads |-> StoreNoReturn]
    /\ before' = [t \in threads |-> NoContent]
    /\ UNCHANGED << mapper_vars, store_config, disk, store_lock, op_pc, items, dest,
                    snapshot, saved >>

\* OplogProgress.init, called once before any other method
InitCall(t) ==
    /\ fresh
    /\ op_pc[t] = "idle"
    /\ op_call' = [op_call EXCEPT ![t] = StoreCall("init", "", "", NoCheckpoint)]
    /\ LET r == init(oplog_progress_file, primary, files, dict)
       IN /\ dict' = r.dict
          /\ StoreFinish(t, IF r.raised THEN "raise" ELSE "None", r.error, NoCheckpoint)
    /\ fresh' = FALSE
    /\ before' = [before EXCEPT ![t] = NoContent]
    /\ UNCHANGED << mapper_vars, store_config, disk, store_lock, items, dest, snapshot,
                    saved >>

\* OplogProgress.update_checkpoint: without a checkpoint it returns before
\* it asks for the lock.
UpdateCall(t, oplog_col, replset_name, checkpoint) ==
    /\ op_pc[t] = "idle"
    /\ (checkpoint # NoCheckpoint => LockFree(store_lock))
    /\ op_call' = [op_call EXCEPT ![t] =
                     StoreCall("update_checkpoint", oplog_col, replset_name, checkpoint)]
    /\ dict' = update_checkpoint(dict, oplog_col, replset_name, checkpoint)
    /\ StoreFinish(t, "None", "none", NoCheckpoint)
    /\ fresh' = FALSE
    /\ before' = [before EXCEPT ![t] = NoContent]
    /\ UNCHANGED << mapper_vars, store_config, disk, store_lock, items, dest, snapshot,
                    saved >>

\* OplogProgress.read_checkpoint
ReadCall(t, oplog_col, replset_name) ==
    /\ op_pc[t] = "idle"
    /\ LockFree(store_lock)
    /\ op_call' = [op_call EXCEPT ![t] =
                     StoreCall("read_checkpoint", oplog_col, replset_name, NoCheckpoint)]
    /\ LET ret_val == read_checkpoint(dict, oplog_col, replset_name)
       IN StoreFinish(t, IF ret_val = NoCheckpoint THEN "None" ELSE "value", "none", ret_val)
    /\ fresh' = FALSE
    /\ before' = [before EXCEPT ![t] = NoContent]
    /\ UNCHANGED << mapper_vars, store_config, disk, store_lock, dict, items, dest,
                    snapshot, saved >>

\* OplogProgress.save up to `with self.lock:`
SaveCall(t) ==
    /\ op_pc[t] = "idle"
    /\ op_call' = [op_call EXCEPT ![t] = StoreCall("save", "", "", NoCheckpoint)]
    /\ IF oplog_progress_file = None
       THEN StoreFinish(t, "None", "none", NoCheckpoint)
       ELSE /\ op_pc' = [op_pc EXCEPT ![t] = "save_lock"]
            /\ op_ret' = [op_ret EXCEPT ![t] = StoreNoReturn]
    /\ fresh' = FALSE
    /\ before' = [before EXCEPT ![t] = NoContent]
    /\ UNCHANGED << mapper_vars, store_config, disk, store_lock, dict, items, dest,
                    snapshot, saved >>

\* `with self.lock:` in save
SaveAcquire(t) ==
    /\ op_pc[t] = "save_lock"
    /\ LockFree(store_lock)
    /\ store_lock' = t
    /\ op_pc' = [op_pc EXCEPT ![t] = "save_items"]
    /\ UNCHANGED << mapper_vars, store_config, disk, dict, fresh, op_call, op_ret,
                    save_locals, saved >>

\* save that keeps the lock while it works on the files
StoreKeepLock(l, t) == l

\* leaving the `with self.lock:` block of save
StoreRelease(l, t) == IF l = t THEN NoThread ELSE l

\* The body of the `with self.lock:` block of save: the snapshot
SaveItems(t) ==
    /\ op_pc[t] = "save_items"
    /\ store_lock' = StoreRelease(store_lock, t)
    /\ IF ItemsOf(dict) = <<>>
       THEN /\ StoreFinish(t, "None", "none", NoCheckpoint)
            /\ UNCHANGED << items, snapshot >>
       ELSE /\ items' = [items EXCEPT ![t] = ItemsOf(dict)]
            /\ snapshot' = [snapshot EXCEPT ![t] = dict]
            /\ op_pc' = [op_pc EXCEPT ![t] = "save_rename"]
            /\ UNCHANGED op_ret
    /\ UNCHANGED << mapper_vars, store_config, disk, dict, fresh, op_call, dest, saved,
                    before >>

\* save that removes the progress file where it should rename it
SaveRenameNoBackup(t) ==
    /\ op_pc[t] = "save_rename"
    /\ IF primary = 0
       THEN /\ StoreFinish(t, "raise", "OSError", NoCheckpoint)
            /\ items' = [items EXCEPT ![t] = <<>>]
            /\ snapshot' = [snapshot EXCEPT ![t] = <<>>]
            /\ UNCHANGED << disk, saved, before >>
       ELSE /\ before' = [before EXCEPT ![t] = files[primary]]
            /\ primary' = 0
            /\ files' = Collect(files, 0, backup, dest)
            /\ saved' = NotSaved
            /\ op_pc' = [op_pc EXCEPT ![t] = "save_open"]
            /\ UNCHANGED << op_ret, items, snapshot, backup >>
    /\ UNCHANGED << mapper_vars, store_config, store_lock, dict, fresh, op_call, dest >>

\* save that goes on to open the progress file when there is none to rename
SaveRenameOrCreate(t) ==
    /\ op_pc[t] = "save_rename"
    /\ IF primary = 0
       THEN UNCHANGED << disk, saved, before >>
       ELSE /\ before' = [before EXCEPT ![t] = files[primary]]
            /\ backup' = primary
            /\ primary' = 0
            /\ files' = Collect(files, 0, primary, dest)
            /\ saved' = NotSaved
    /\ op_pc' = [op_pc EXCEPT ![t] = "save_open"]
    /\ UNCHANGED << mapper_vars, store_config, store_lock, dict, fresh, op_call, dest,
                    op_ret, items, snapshot >>

\* `os.rename(self.oplog_progress_file, backup_file)`: OSError when the
\* progress file does not exist.
SaveRename(t) ==
    /\ op_pc[t] = "save_rename"
    /\ IF primary = 0
       THEN /\ StoreFinish(t, "raise", "OSError", NoCheckpoint)
            /\ items' = [items EXCEPT ![t] = <<>>]
            /\ snapshot' = [snapshot EXCEPT ![t] = <<>>]
            /\ UNCHANGED << disk, saved, before >>
       ELSE /\ before' = [before EXCEPT ![t] = files[primary]]
            /\ backup' = primary
            /\ primary' = 0
            /\ files' = Collect(files, 0, primary, dest)
            /\ saved' = NotSaved
            /\ op_pc' = [op_pc EXCEPT ![t] = "save_open"]
            /\ UNCHANGED << op_ret, items, snapshot >>
    /\ UNCHANGED << mapper_vars, store_config, store_lock, dict, fresh, op_call, dest >>

\* `open(self.oplog_progress_file, 'w')`: the file is created, or emptied
\* when another save has created it in the meantime.
SaveOpen(t) ==
    /\ op_pc[t] = "save_open"
    /\ LET f == IF primary # 0 THEN primary ELSE NewFile(primary, backup, dest)
       IN /\ primary' = f
          /\ dest' = [dest EXCEPT ![t] = f]
          /\ files' = [i \in (DOMAIN files) \cup {f} |-> IF i = f THEN EmptyFile ELSE files[i]]
    /\ saved' = NotSaved
    /\ op_pc' = [op_pc EXCEPT ![t] = "save_write"]
    /\ UNCHANGED << mapper_vars, store_config, store_lock, dict, fresh, op_call, op_ret,
                    backup, items, snapshot, before >>

\* What a write that failed leaves in the file: nothing, or the part that
\* was written.
AfterFailedWrite == {EmptyFile, InvalidJson}

\* The exception a failed write ends save with.  The text stays in the
\* buffer of dest until the `with open(...)` block closes the file, so a
\* write the system refuses raises OSError from that close, outside the
\* try.  When dest.write itself raises IOError the handler truncates the
\* file and calls shutil.copyfile with the two open files in place of
\* their paths, which raises TypeError; open(backup_file) raises OSError
\* before that when the backup is gone.
WriteErrors(bk) == IF bk = 0 THEN {"OSError"} ELSE {"OSError", "TypeError"}

\* `dest.write(json_str)` and the end of the `with` block; a failed write
\* leaves the file empty or holding a part of the text.
SaveWrite(t) ==
    /\ op_pc[t] = "save_write"
    /\ \/ /\ files' = Collect([files EXCEPT ![dest[t]] = Dumps(items[t])],
                               primary, backup, [dest EXCEPT ![t] = 0])
          /\ saved' = IF dest[t] = primary THEN snapshot[t] ELSE saved
          /\ op_pc' = [op_pc EXCEPT ![t] = "save_remove"]
          /\ UNCHANGED << op_ret, items, snapshot >>
       \/ /\ \E left \in AfterFailedWrite :
                files' = Collect([files EXCEPT ![dest[t]] = left],
                                 primary, backup, [dest EXCEPT ![t] = 0])
          /\ saved' = IF dest[t] = primary THEN NotSaved ELSE saved
          /\ \E error \in WriteErrors(backup) :
                StoreFinish(t, "raise", error, NoCheckpoint)
          /\ items' = [items EXCEPT ![t] = <<>>]
          /\ snapshot' = [snapshot EXCEPT ![t] = <<>>]
    /\ dest' = [dest EXCEPT ![t] = 0]
    /\ UNCHANGED << mapper_vars, store_config, store_lock, dict, fresh, op_call,
                    primary, backup, before >>

\* `os.remove(backup_file)`: OSError when the backup does not exist.
SaveRemove(t) ==
    /\ op_pc[t] = "save_remove"
    /\ IF backup = 0
       THEN /\ StoreFinish(t, "raise", "OSError", NoCheckpoint)
            /\ UNCHANGED << files, backup >>
       ELSE /\ StoreFinish(t, "None", "none", NoCheckpoint)
            /\ backup' = 0
            /\ files' = Collect(files, primary, 0, dest)
    /\ items' = [items EXCEPT ![t] = <<>>]
    /\ snapshot' = [snapshot EXCEPT ![t] = <<>>]
    /\ UNCHANGED << mapper_vars, store_config, store_lock, dict, fresh, op_call,
                    primary, dest, saved, before >>

NextStore ==
    \/ NewStore
    \/ \E t \in threads : InitCall(t)
    \/ \E t \in threads : \E c \in store_asked.cols : \E n \in store_asked.names :
          \E ts \in store_asked.checkpoints : UpdateCall(t, c, n, ts)
    \/ \E t \in threads : \E c \in store_asked.cols : \E n \in store_asked.names :
          ReadCall(t, c, n)
    \/ \E t \in threads : SaveCall(t)
    \/ \E t \in threads : SaveAcquire(t)
    \/ \E t \in threads : SaveItems(t)
    \/ \E t \in threads : SaveRename(t)
    \/ \E t \in threads : SaveOpen(t)
    \/ \E t \in threads : SaveWrite(t)
    \/ \E t \in threads : SaveRemove(t)

\* No mapper is in use.
AskedNothing == [src |-> {}, dbs |-> {}, targets |-> {}, projected |-> {}]
NoMapper(thrs) == InitMapper({<<>>}, {<<{}, <<None, None>> >>}, thrs, AskedNothing)

\* One thread works with the store.
StoreAskedAll ==
    [cols |-> {"oplog1"}, names |-> {"rs1", "rs2", "oplog1"},
     checkpoints |-> {NoCheckpoint, Ts_12_34, Ts_55_11}]
InitOplog ==
    NoMapper({T1}) /\ InitStore({None, ProgressPath}, InitialFiles, {T1}, StoreAskedAll)
SpecStore == InitOplog /\ [][NextStore]_vars

\* Two threads share the store.
StoreAskedConc ==
    [cols |-> {"oplog1"}, names |-> {"rs1"}, checkpoints |-> {Ts_12_34, Ts_55_11}]
InitOplogConc ==
    NoMapper({T1, T2})
        /\ InitStore({ProgressPath}, {<< JsonPair(Op1Pair) >>}, {T1, T2}, StoreAskedConc)
SpecStoreConc == InitOplogConc /\ [][NextStore]_vars

\* ---------------------------------------------------------------- crash
\* The process stops while a method of the store is running and is started
\* again: the files stay as they are, a file being written holds nothing
\* or a part of the text, and a new store is constructed on the same path.
Crash ==
    /\ \E t \in threads : op_pc[t] # "idle"
    /\ \E left \in AfterFailedWrite :
          files' = Collect([i \in DOMAIN files |->
                              IF \E t \in threads : op_pc[t] = "save_write" /\ dest[t] = i
                              THEN left ELSE files[i]],
                           primary, backup, [t \in threads |-> 0])
    /\ dict' = <<>>
    /\ fresh' = TRUE
    /\ store_lock' = NoThread
    /\ op_pc' = [t \in threads |-> "idle"]
    /\ op_call' = [t \in threads |-> StoreIdle]
    /\ op_ret' = [t \in threads |-> StoreNoReturn]
    /\ items' = [t \in threads |-> <<>>]
    /\ snapshot' = [t \in threads |-> <<>>]
    /\ dest' = [t \in threads |-> 0]
    /\ UNCHANGED << mapper_vars, store_config, primary, backup, saved, before >>

\* The store with one thread, in a process that can stop at any step
NextStoreCrash ==
    \/ NextStore
    \/ Crash
StoreAskedCrash ==
    [cols |-> {"oplog1"}, names |-> {"rs1", "rs2"}, checkpoints |-> {Ts_12_34, Ts_55_11}]
InitOplogCrash ==
    NoMapper({T1}) /\ InitStore({ProgressPath}, InitialFiles, {T1}, StoreAskedCrash)
SpecStoreCrash == InitOplogCrash /\ [][NextStoreCrash]_vars

\* ---------------------------------------------------------------- claims
\* Vocabulary of the properties
Items == {user_mapping[i] : i \in 1..Len(user_mapping)}
DestOf(e) == IF e.rename = None THEN e.src ELSE e.rename
Returned(t, ops) == pc[t] = "idle" /\ call[t].op \in ops
InGet(t) == pc[t] \in {"get_lookup", "get_scan", "get_set_plain"}
UnmapNow(n) == unmap_namespace(plain, wildcard, wildcard_keys, reverse_plain, n)
OtherSourceHas(src_name, target_name) ==
    \E k \in DOMAIN plain : k # src_name /\ plain[k].name = target_name

\* A namespace matches a pattern as section 4.1 of the specification reads:
\* the text around '*' is literal, a '*' in the database part takes no '.'.
GlobMatches(n, pattern) ==
    LET star == Find(pattern, "*")
        pre == SubSeq(pattern, 1, star)
        post == SubSeq(pattern, star + 2, Len(pattern))
        grp == SubSeq(n, Len(pre) + 1, Len(n) - Len(post))
    IN /\ star # -1
       /\ Len(n) >= Len(pre) + Len(post)
       /\ SubSeq(n, 1, Len(pre)) = pre
       /\ SubSeq(n, Len(n) - Len(post) + 1, Len(n)) = post
       /\ (star < Find(pattern, ".") => ~Contains(grp, "."))

InExclusionSet(n) ==
    \E x \in ex_namespace_set : n = x \/ GlobMatches(n, x)

\* C1: in every state, during and after construction and after any calls,
\* failed ones included, every entry plain[k] = v has reverse_plain[v.name] = k,
\* so no two distinct sources in plain have the same target name.
C1_ReverseOfPlain ==
    /\ \A k \in DOMAIN plain : DictGet(reverse_plain, plain[k].name) = k
    /\ \A k1, k2 \in DOMAIN plain : plain[k1].name = plain[k2].name => k1 = k2

C1_Witness ==
    /\ Cardinality(DOMAIN plain) >= 3
    /\ \E t \in threads :
          Returned(t, {"get"}) /\ ret[t].via = "learned" /\ ret[t].kind = "value"

\* C2: adding an explicit plain mapping, or learning a wildcard match, whose
\* target name is already the target of a different source in plain raises
\* InvalidConfiguration: the constructor fails, or the resolving call does.
C2_DuplicateTargetRaises ==
    [][ /\ ( /\ added < Len(user_mapping)
             /\ ~raised
             /\ ~Contains(user_mapping[added + 1].src, "*")
             /\ OtherSourceHas(user_mapping[added + 1].src,
                               DestOf(user_mapping[added + 1]))
             /\ added' = added + 1 )
           => raised'
        /\ \A t \in threads :
             ( /\ pc[t] = "get_set_plain"
               /\ pc'[t] # "get_set_plain"
               /\ OtherSourceHas(GetArg(t), new_mapped[t].name) )
             => (ret'[t].kind = "raise" /\ plain' = plain)
      ]_vars

C2_Witness ==
    \E t \in threads :
        /\ Returned(t, {"get"})
        /\ ret[t].kind = "raise" /\ ret[t].via = "learned"
        /\ call[t].arg \notin DOMAIN plain
        /\ \E w \in DOMAIN wildcard :
              /\ match(call[t].arg, w).ok
              /\ OtherSourceHas(call[t].arg,
                                Learned(call[t].arg, w, wildcard[w]).name)

\* C3: two completed resolutions of the same source namespace on one mapper
\* returned equal values (a MappedNamespace or None), whatever was resolved
\* in between and whichever wildcard entry matched first.
C3_ResolveIsStable ==
    \A t1, t2 \in threads :
        ( /\ Returned(t1, {"get"}) /\ Returned(t2, {"get"})
          /\ call[t1].arg = call[t2].arg
          /\ ret[t1].kind \in {"value", "None"}
          /\ ret[t2].kind \in {"value", "None"} )
        => (ret[t1].kind = ret[t2].kind /\ ret[t1].ns = ret[t2].ns)

C3_Witness ==
    \E t1, t2 \in threads :
        /\ t1 # t2
        /\ Returned(t1, {"get"}) /\ Returned(t2, {"get"})
        /\ call[t1].arg = call[t2].arg
        /\ ret[t1].via = "learned" /\ ret[t1].kind = "value"
        /\ ret[t2].via = "hit"
        /\ ret[t1].ns.include_fields # None
        /\ Len(MatchingKeys(wildcard_keys, call[t1].arg)) >= 2

\* C4: the lookup, scan and insert of get run under the mapper lock, one
\* thread at a time; of two threads resolving the same namespace that a
\* wildcard matches one inserts the learned entry, the other finds it in
\* plain, and both return equal values.
C4_LearnIsAtomic ==
    \A t1, t2 \in threads :
        t1 # t2 =>
          /\ InGet(t1) => (lock = t1 /\ ~InGet(t2))
          /\ ( /\ Returned(t1, {"get"}) /\ Returned(t2, {"get"})
               /\ call[t1].arg = call[t2].arg
               /\ ret[t1].via = "learned" /\ ret[t1].kind = "value" )
             => (ret[t2].via = "hit" /\ ret[t2].kind = "value"
                 /\ ret[t2].ns = ret[t1].ns)

C4_Witness ==
    \E t1, t2 \in threads :
        /\ t1 # t2
        /\ Returned(t1, {"get"}) /\ ret[t1].via = "learned" /\ ret[t1].kind = "value"
        /\ Returned(t2, {"get"}) /\ call[t2].arg = call[t1].arg
        /\ ret[t2].via = "hit" /\ ret[t2].kind = "value"
        /\ lock = NoThread

\* C5: in a constructed mapper, unmap_namespace of the name a resolution
\* returned is the namespace that was resolved; an explicit plain mapping
\* src -> dst resolves src to dst and unmaps dst to src.
C5_UnmapInvertsResolve ==
    /\ \A t \in threads :
          (Returned(t, {"get", "map_namespace"}) /\ ret[t].kind = "value")
          => UnmapNow(ret[t].ns.name) = [kind |-> "value", name |-> call[t].arg]
    /\ Constructed =>
          \A e \in Items :
              ~Contains(e.src, "*") =>
                /\ UnmapNow(DestOf(e)) = [kind |-> "value", name |-> e.src]
                /\ \A t \in threads :
                      ( /\ Returned(t, {"get", "map_namespace"})
                        /\ call[t].arg = e.src
                        /\ ret[t].kind = "value" )
                      => ret[t].ns.name = DestOf(e)

C5_Witness ==
    \E t \in threads :
        /\ Returned(t, {"get"})
        /\ ret[t].via = "learned" /\ ret[t].kind = "value"
        /\ ret[t].ns.name # call[t].arg
        /\ \E e \in Items : ~Contains(e.src, "*")

\* C6: a namespace that equals a literal or matches a wildcard pattern of the
\* exclusion set resolves to None whatever plain, wildcard and the learned
\* entries hold, and get never goes on to the lock and the lookup for it.
C6_ExcludedIsAbsent ==
    \A t \in threads :
        /\ (Returned(t, {"get", "map_namespace"}) /\ InExclusionSet(call[t].arg))
           => (ret[t].kind = "None" /\ ret[t].via = "excluded")
        /\ (pc[t] = "get_lock" \/ InGet(t)) => ~InExclusionSet(GetArg(t))

C6_Witness ==
    \E t \in threads :
        /\ Returned(t, {"get"})
        /\ ret[t].via = "excluded"
        /\ \/ call[t].arg \in DOMAIN plain
           \/ MatchingKeys(wildcard_keys, call[t].arg) # <<>>

\* C7 as stated: with plain and wildcard both empty every namespace resolves
\* to itself, unmaps to itself, and map_db(db) returns exactly {db}.
C7_DefaultForEveryNamespace ==
    (Constructed /\ DOMAIN plain = {} /\ DOMAIN wildcard = {}) =>
        \A t \in threads :
            /\ Returned(t, {"get", "map_namespace"})
               => (ret[t].kind = "value" /\ ret[t].ns.name = call[t].arg)
            /\ Returned(t, {"unmap_namespace"})
               => (ret[t].kind = "value" /\ ret[t].ns.name = call[t].arg)
            /\ Returned(t, {"map_db"})
               => (ret[t].kind = "value" /\ ret[t].dbs = {call[t].arg})

\* C7 amended: with plain and wildcard both empty every namespace that the
\* exclusion set does not match resolves to itself (one it matches resolves
\* to None), every namespace unmaps to itself, and map_db(db) returns {db}.
C7_DefaultUnlessExcluded ==
    (Constructed /\ DOMAIN plain = {} /\ DOMAIN wildcard = {}) =>
        \A t \in threads :
            /\ Returned(t, {"get", "map_namespace"})
               => IF match_set(call[t].arg, ex_namespace_set)
                  THEN ret[t].kind = "None"
                  ELSE (ret[t].kind = "value" /\ ret[t].ns.name = call[t].arg)
            /\ Returned(t, {"unmap_namespace"})
               => (ret[t].kind = "value" /\ ret[t].ns.name = call[t].arg)
            /\ Returned(t, {"map_db"})
               => (ret[t].kind = "value" /\ ret[t].dbs = {call[t].arg})

C7_Witness ==
    /\ Constructed /\ DOMAIN plain = {} /\ DOMAIN wildcard = {}
    /\ ex_namespace_set # {}
    /\ \E t \in threads :
          /\ Returned(t, {"get"})
          /\ ret[t].kind = "value" /\ ret[t].via = "default"

\* C8 as stated: with mappings configured, map_db(db) returns the target
\* database of every configured mapping (plain or wildcard) whose source
\* database is db, even when nothing under db was resolved before.
C8_MapDbSeedsFanout ==
    \A t \in threads :
        ( /\ Returned(t, {"map_db"})
          /\ ret[t].kind = "value"
          /\ Items # {} )
        => \A e \in Items :
              SplitHead(e.src) = call[t].arg => SplitHead(DestOf(e)) \in ret[t].dbs

\* The target databases of the collections of db that plain holds
CollectionTargets(pl, db) ==
    { SplitHead(pl[k].name) :
        k \in {k \in DOMAIN pl : SplitHead(k) = db /\ SplitTail(k) # Cmd} }

\* Some configured mapping covers db: the database part of its source is
\* db, or is a pattern whose '*' stands for a part of the name db.
CoveredLiterally(db) ==
    \E e \in Items :
        LET src_db == SplitHead(e.src)
        IN src_db = db \/ GlobMatches(db, src_db)

\* Thread t's call of map_db returns in this step.
MapDbReturns(t) ==
    /\ call'[t].op = "map_db"
    /\ pc'[t] = "idle"
    /\ ret'[t].kind = "value"
    /\ << pc[t], call[t], ret[t] >> # << pc'[t], call'[t], ret'[t] >>

C10_FieldsFallBackToDefaults ==
    \A t \in threads :
        ( /\ Returned(t, {"fields"})
          /\ ret[t].kind = "value"
          /\ ret[t].via \in {"default", "hit", "learned"} )
        => LET own == IF ret[t].via = "default" THEN NoNamespace
                      ELSE plain[call[t].arg]
               has_own == own.include_fields # None \/ own.exclude_fields # None
           IN /\ ret[t].ns.include_fields =
                    (IF has_own THEN own.include_fields ELSE include_fields)
              /\ ret[t].ns.exclude_fields =
                    (IF has_own THEN own.exclude_fields ELSE exclude_fields)


\* C11: projection(src, callerProjection) returns None whenever get(src)
\* returns None (src is excluded or no mapping matches it), whatever the
\* caller's projection is, a non-empty one included.
C11_ProjectionAbsentWhenUnmapped ==
    \A t \in threads :
        (Returned(t, {"projection"}) /\ ret[t].via \in {"excluded", "nomatch"})
            => ret[t].kind = "None"

\* C12: for a namespace with an include list, projection returns a document
\* that has 1 for "_id" and for every listed field; for a namespace with an
\* exclude list it has 0 for every listed field but "_id", and never 0 for
\* "_id".
C12_ProjectionKeepsId ==
    \A t \in threads :
        (Returned(t, {"projection"}) /\ ret[t].kind = "value"
            /\ ret[t].via \in {"hit", "learned"}) =>
        LET inc == ret[t].ns.include_fields
            exc == ret[t].ns.exclude_fields
            doc == ret[t].projection
        IN /\ inc # None =>
                /\ "_id" \in DOMAIN doc /\ doc["_id"] = 1
                /\ \A i \in 1..Len(inc) : inc[i] \in DOMAIN doc /\ doc[inc[i]] = 1
           /\ (inc = None /\ exc # None) =>
                /\ \A i \in 1..Len(exc) :
                      exc[i] # "_id" => (exc[i] \in DOMAIN doc /\ doc[exc[i]] = 0)
                /\ ("_id" \in DOMAIN doc => doc["_id"] # 0)


\* Thread t takes a step that reads or writes plain, wildcard, reverse_plain
\* or plain_db: a step inside get's critical section, map_db's read of
\* plain_db, or a call, which starts with the test for a mapper without
\* mappings unless get finds the namespace excluded before it.
Accesses(t) ==
    \/ pc[t] \in {"get_lookup", "get_scan", "get_set_plain", "map_db_read"}
          /\ pc'[t] # pc[t]
    \/ /\ pc[t] = "idle"
       /\ (call'[t] # call[t] \/ ret'[t] # ret[t] \/ pc'[t] # pc[t])
       /\ (call'[t].op \in {"map_db", "unmap_namespace"} \/ ret'[t].via # "excluded")

\* C19 as stated: every read and every write of plain, wildcard,
\* reverse_plain and plain_db by get, unmap_namespace, map_db and the
\* registration of a learned mapping is made by a thread holding the lock.
C19_AllAccessUnderLock ==
    [][\A t \in threads : Accesses(t) => lock = t]_vars

\* C19, amended: every step of get's lookup, scan and insertion is made by
\* the thread holding the lock, and once the mapper is constructed plain,
\* wildcard, reverse_plain and plain_db change only in the insertion step of
\* the thread holding the lock.
C19_CriticalSectionUnderLock ==
    [][ /\ \A t \in threads :
              (InGet(t) /\ pc'[t] # pc[t]) => lock = t
        /\ (Constructed /\ << plain, wildcard, reverse_plain, plain_db >>'
                             # << plain, wildcard, reverse_plain, plain_db >>)
              => \E t \in threads : lock = t /\ pc[t] = "get_set_plain"
                                      /\ pc'[t] # pc[t] ]_vars

C19_Witness ==
    \E t1, t2 \in threads :
        /\ t1 # t2
        /\ lock = t1 /\ pc[t1] = "get_set_plain"
        /\ pc[t2] = "get_lock"
        /\ GetArg(t1) \notin DOMAIN plain
        /\ GetArg(t2) = GetArg(t1)


\* Vocabulary of the properties of the store
StoreReturned(t, op) == op_pc[t] = "idle" /\ op_call[t].op = op
SaveIO == {"save_rename", "save_open", "save_write", "save_remove"}
\* Thread t, idle before and after, makes the call recorded in op_call'.
StoreCalls(t, op) ==
    op_pc[t] = "idle" /\ op_pc'[t] = "idle" /\ op_call'[t].op = op
\* A content that is not a list of (name, position) pairs: text that is no
\* JSON, or JSON of another shape.
Unparseable(c) ==
    \/ c.kind = "invalid"
    \/ c.kind = "json" /\ (c.shape = "number" \/ (c.shape = "list" /\ c.pairs = <<>>))

\* C13: when save has written a non-empty table to an existing progress
\* file and a newly constructed store on the same path runs init, the table
\* of the new store equals the table that was saved; save writes one entry
\* as a lone [name, position] pair and several entries as a list of pairs,
\* and init reads both.
C13_SaveLoadRoundTrip ==
    [][ \A t \in threads :
          /\ (fresh /\ StoreCalls(t, "init") /\ saved # NotSaved)
                => (op_ret'[t].kind = "None" /\ dict' = saved)
          /\ (op_pc[t] = "save_write" /\ op_pc'[t] = "save_remove" /\ dest[t] = primary)
                => /\ files'[primary].kind = "json"
                   /\ Len(files'[primary].pairs) = Len(snapshot[t])
                   /\ files'[primary].shape =
                         (IF Len(snapshot[t]) = 1 THEN "pair" ELSE "list") ]_vars

C13_Witness ==
    \E t \in threads :
        /\ StoreReturned(t, "init")
        /\ saved # NotSaved /\ dict = saved
        /\ Len(dict) = 1 /\ files[primary].shape = "pair"
        /\ dict[1].name = "rs2" /\ dict[1].ts = Ts_12_34

\* C14: update_checkpoint(oplog_col, replset_name, checkpoint) leaves the
\* table as it is when checkpoint is None; otherwise the table then has
\* checkpoint under replset_name, no entry under str(oplog_col) unless that
\* is replset_name, and every other entry as before.
C14_UpdateCheckpoint ==
    [][ \A t \in threads : StoreCalls(t, "update_checkpoint") =>
          LET c == op_call'[t]
          IN IF c.checkpoint = NoCheckpoint THEN dict' = dict
             ELSE /\ c.replset_name \in Keys(dict')
                  /\ Lookup(dict', c.replset_name) = c.checkpoint
                  /\ (c.oplog_col # c.replset_name => c.oplog_col \notin Keys(dict'))
                  /\ \A k \in (Keys(dict) \cup Keys(dict')) \ {c.replset_name, c.oplog_col} :
                        /\ k \in Keys(dict) /\ k \in Keys(dict')
                        /\ Lookup(dict', k) = Lookup(dict, k) ]_vars

C14_Witness ==
    \E t \in threads :
        /\ StoreReturned(t, "update_checkpoint")
        /\ op_call[t].checkpoint = Ts_12_34 /\ op_call[t].replset_name = "rs1"
        /\ primary # 0 /\ files[primary] = JsonList(<< Op1Pair, Rs2Pair >>)
        /\ Keys(dict) = {"rs1", "rs2"}
        /\ Lookup(dict, "rs1") = Ts_12_34 /\ Lookup(dict, "rs2") = Ts_55_11

\* C15: read_checkpoint(oplog_col, replset_name) returns the entry under
\* replset_name when there is one, else the entry under str(oplog_col) when
\* there is one, else None, and it never changes the table.
C15_ReadCheckpoint ==
    [][ \A t \in threads : StoreCalls(t, "read_checkpoint") =>
          LET c == op_call'[t]
              r == op_ret'[t]
          IN /\ dict' = dict
             /\ IF c.replset_name \in Keys(dict)
                THEN r.kind = "value" /\ r.value = Lookup(dict, c.replset_name)
                ELSE IF c.oplog_col \in Keys(dict)
                THEN r.kind = "value" /\ r.value = Lookup(dict, c.oplog_col)
                ELSE r.kind = "None" ]_vars

C15_Witness ==
    \E t \in threads :
        /\ StoreReturned(t, "read_checkpoint")
        /\ op_call[t].replset_name \notin Keys(dict)
        /\ op_call[t].oplog_col \in Keys(dict)
        /\ op_ret[t].kind = "value" /\ op_ret[t].value = Ts_12_34

\* C16: when the progress file holds something that is not a list of
\* (name, position) pairs, text that is no JSON or JSON of another shape
\* such as an empty list, init does not raise and leaves the table empty.
C16_LoadSoftFailure ==
    \A t \in threads :
        (StoreReturned(t, "init") /\ oplog_progress_file # None /\ primary # 0
            /\ Unparseable(files[primary]))
        => (op_ret[t].kind = "None" /\ dict = <<>>)

\* C17: when the write of the new snapshot fails in save, the content of
\* the backup is put back under the path of the progress file: after the
\* call the progress file holds what it held before, not an empty or
\* truncated file.
C17_FailedWriteRestores ==
    [][ \A t \in threads :
          (op_pc[t] = "save_write" /\ op_pc'[t] = "idle" /\ backup # 0)
          => (primary' # 0 /\ files'[primary'] = files[backup]) ]_vars

\* C18: the backup file exists only while a call of save is running: when
\* every call of save has returned or raised, there is no backup file.
C18_BackupOnlyDuringSave ==
    (\A t \in threads : op_pc[t] = "idle") => backup = 0

\* C20: save computes items under the lock and works on the files after
\* it released the lock: while a thread is between the rename and the
\* removal of the backup it does not hold the lock, the lock is free for
\* an idle thread's update_checkpoint, its items stay what they were, and
\* what it writes is the table as it was when items was computed.
C20_SaveWritesSnapshot ==
    [][ \A t \in threads :
          /\ op_pc[t] \in SaveIO => store_lock # t
          /\ \A u \in threads \ {t} :
                (op_pc[t] \in SaveIO /\ op_pc[u] = "idle") => LockFree(store_lock)
          /\ (op_pc[t] \in SaveIO /\ op_pc'[t] \in SaveIO) => items'[t] = items[t]
          /\ (op_pc[t] = "save_write" /\ op_pc'[t] = "save_remove"
                  /\ dest[t] \in DOMAIN files')
                => files'[dest[t]] = Dumps(ItemsOf(snapshot[t])) ]_vars

C20_Witness ==
    \E t, u \in threads :
        /\ t # u
        /\ op_pc[t] = "save_remove"
        /\ StoreReturned(u, "update_checkpoint")
        /\ dict # snapshot[t]
        /\ primary # 0
        /\ files[primary] = Dumps(ItemsOf(snapshot[t]))
        /\ files[primary] # Dumps(ItemsOf(dict))


\* The dictionaries as the constructor leaves them: _add_mapping for every
\* item of user_mapping, starting from empty dictionaries.
RECURSIVE AddAll(_, _)
AddAll(d, mappings) ==
    IF mappings = <<>> \/ d.raised THEN d
    ELSE AddAll(add_mapping(d, include_fields, exclude_fields, Head(mappings).src,
                            Head(mappings).rename, Head(mappings).fields,
                            Head(mappings).excludeFields),
                Tail(mappings))
AsConstructed ==
    AddAll([raised |-> FALSE, plain |-> EmptyDict, wildcard |-> EmptyDict,
            wildcard_keys |-> <<>>, reverse_plain |-> EmptyDict,
            plain_db |-> EmptyDict, namespace_set |-> {}], user_mapping)
GetOps == {"get", "map_namespace", "fields", "map_db", "projection"}
\* get for this namespace would run into the wildcard scan and raise.
WouldRaise(n) ==
    /\ n \notin DOMAIN plain
    /\ MatchingKeys(wildcard_keys, n) # <<>>
    /\ LET k == MatchingKeys(wildcard_keys, n)[1]
       IN TargetTaken(reverse_plain, n, Learned(n, k, wildcard[k]).name)

\* C23: in every state, for every entry reverse_plain[t] = s there is an
\* entry plain[s] with plain[s].name = t; reverse_plain holds no stale
\* target, the <db>.$cmd entries of a source database mapped into several
\* target databases included.
C23_PlainOfReverse ==
    \A t \in DOMAIN reverse_plain :
        /\ reverse_plain[t] \in DOMAIN plain
        /\ plain[reverse_plain[t]].name = t

\* C24: a get that raises InvalidConfiguration while it learns a wildcard
\* match leaves plain, reverse_plain and plain_db as they were and releases
\* the lock, and as long as a call has raised for a namespace, get raises
\* for that namespace again.
C24_FailedLearnChangesNothing ==
    /\ [][ \A t \in threads :
             (pc[t] = "get_set_plain" /\ ret'[t].kind = "raise")
                => /\ << plain, reverse_plain, plain_db >>' = << plain, reverse_plain, plain_db >>
                   /\ lock' = NoThread ]_vars
    /\ [](\A t \in threads :
             (Returned(t, GetOps) /\ ret[t].kind = "raise") => WouldRaise(GetArg(t)))

C24_Witness ==
    \E t, u \in threads :
        /\ t # u
        /\ Returned(t, {"get"}) /\ ret[t].kind = "raise"
        /\ Returned(u, {"get"}) /\ ret[u].kind = "raise"
        /\ call[t].arg = call[u].arg
        /\ lock = NoThread

\* The items the constructor has processed have pairwise distinct target
\* namespaces and no item mixes include and exclude fields.
ValidSoFar ==
    /\ \A i, j \in 1..added : i # j => DestOf(user_mapping[i]) # DestOf(user_mapping[j])
    /\ \A i \in 1..added :
          ~MixedFields(include_fields, exclude_fields, user_mapping[i].fields,
                       user_mapping[i].excludeFields)

\* C25: the constructor does not raise for items with pairwise distinct
\* target namespaces and valid field lists, also when two source databases
\* are mapped into one target database: the <db>.$cmd mappings it adds
\* raise nothing by themselves.
C25_CmdMappingNeverRaises ==
    raised => ~ValidSoFar

\* C27: what unmap_namespace returns for a target namespace does not
\* depend on what get has learned: it is what it was when the constructor
\* returned.
C27_UnmapIgnoresLearning ==
    Constructed =>
        \A n \in asked.targets :
            UnmapNow(n) = unmap_namespace(AsConstructed.plain, AsConstructed.wildcard,
                                          AsConstructed.wildcard_keys,
                                          AsConstructed.reverse_plain, n)

\* ---------------------------------------------------------------- C21
\* The progress file of the store holds the complete text of a table.
CompleteSnapshot == primary # 0 /\ saved # NotSaved /\ files[primary] = Dumps(ItemsOf(saved))

\* The backup file holds what the progress file held when save renamed it.
BackupHolds(t) == backup # 0 /\ files[backup] = before[t]

\* C21: from the rename of a save on, whether the save goes on, fails in its
\* write or the process stops, the backup holds what the progress file held
\* before the save or the progress file holds the complete new snapshot.
C21_OneCompleteCopy ==
    \A t \in threads : before[t] # NoContent => BackupHolds(t) \/ CompleteSnapshot

\* A write of save failed after a part of the text: the progress file is
\* corrupt and the backup holds the checkpoint it held before.
C21_Witness ==
    /\ StoreReturned(T1, "save")
    /\ op_ret[T1].kind = "raise"
    /\ op_ret[T1].error = "OSError"
    /\ primary # 0
    /\ files[primary] = InvalidJson
    /\ before[T1] = JsonPair(Op1Pair)
    /\ BackupHolds(T1)

\* ---------------------------------------------------------------- C22
\* Only the backup exists and no save is about to create the progress file.
Stranded ==
    /\ primary = 0
    /\ backup # 0
    /\ \A t \in threads : op_pc[t] \notin {"save_open", "save_write"}

\* The process stops between the rename and the open of a save.
StopsAfterRename == \E t \in threads : op_pc[t] = "save_open" /\ op_pc'[t] = "idle"

\* The table changes as the update_checkpoint call of some thread changes it.
TableUpdated ==
    \E t \in threads :
        /\ StoreCalls(t, "update_checkpoint")
        /\ dict' = update_checkpoint(dict, op_call'[t].oplog_col,
                                      op_call'[t].replset_name, op_call'[t].checkpoint)

\* C22: a stop of the process between the rename and the open of save leaves
\* only the backup, with an empty table; from then on the progress file
\* stays missing and the backup stays as it is whatever is called: init
\* leaves the table empty, and the table changes only by what
\* update_checkpoint is given or by a new start.
C22_NoRecovery ==
    [][ /\ StopsAfterRename => (Stranded' /\ dict' = <<>>)
        /\ Stranded =>
              /\ Stranded'
              /\ files'[backup'] = files[backup]
              /\ (\A t \in threads : StoreCalls(t, "init") => dict' = <<>>)
              /\ (dict' # dict => (dict' = <<>> \/ TableUpdated)) ]_vars

\* After the stop the store was loaded and given a checkpoint, and its save
\* failed on the missing progress file: the backup still holds the
\* checkpoint of before the stop.
C22_Witness ==
    /\ Stranded
    /\ StoreReturned(T1, "save")
    /\ op_ret[T1].kind = "raise"
    /\ op_ret[T1].error = "OSError"
    /\ dict # <<>>
    /\ files[backup] = JsonPair(Op1Pair)

\* ---------------------------------------------------------------- C26
\* Thread t leaves save at its rename or its remove.
EndsAtRenameOrRemove(t) ==
    op_pc[t] \in {"save_rename", "save_remove"} /\ op_pc'[t] = "idle"

\* C26: when two threads save at once, no rename and no remove of either
\* call raises, and once no call is at work on the files the progress file
\* holds a complete snapshot and there is no backup.
C26_ConcurrentSavesSucceed ==
    [][ \A t \in threads :
          EndsAtRenameOrRemove(t) =>
              /\ op_ret'[t].kind # "raise"
              /\ (\A u \in threads : op_pc'[u] \notin SaveIO) =>
                    (backup' = 0 /\ primary' # 0 /\ files'[primary'] \notin AfterFailedWrite) ]_vars

============================================================================
